---------------------------- MODULE Spec2Model ----------------------------
(***************************************************************************)
(* tridirt: the launcher of TrID, TrIDScan and TrIDDefsPack                *)
(* (src/src/tridirt/__main__.py).                                          *)
(*                                                                         *)
(* The state is the install directory (the tools' executables, the         *)
(* definitions file triddefs.trd, one *_LU state file per tool) and the    *)
(* launcher process of the current invocation (its position, the values    *)
(* read at import, the exception that ended it, its exit status).          *)
(* A behaviour follows the successive invocations of one console script.   *)
(* The other scripts' files matter to it only through the import, which    *)
(* reads all four state files.                                             *)
(*                                                                         *)
(* Time is counted in ticks (the resolution of datetime.now()).  DT_FORMAT *)
(* has a resolution of one second (Sec ticks), the intervals are in days.  *)
(***************************************************************************)
EXTENDS Integers, FiniteSets, Sequences, TLC

(***************************************************************************)
(* Bounds of the model.                                                    *)
(***************************************************************************)
TicksPerSec == 2
TicksPerDay == 2
MaxDays == 8
MaxLen == 2
MaxStatus == 2
MaxRuns == 2

(***************************************************************************)
(* Program constants.                                                      *)
(***************************************************************************)
ProgramDays == 7
DefsDays == 2
ExitNormal == 0
ExitUncaught == 1
\* The declined install leaving with the status of a normal end.
ExitDeclinedAsNormal == ExitNormal
ExitDeclined == 1

Sec == TicksPerSec
Day == TicksPerDay
MaxNow == MaxDays * Day + (Sec - 1)
MaxSec == MaxNow \div Sec

Progs == {"TrID", "TrIDScan", "TrIDDefsPack"}
DefsName == "TrIDDefs"
Files == Progs \cup {DefsName}

(***************************************************************************)
(* Files on disk.  An executable is absent, a whole copy, or a copy whose  *)
(* extraction broke off; gen tells which invocation extracted it (0: it    *)
(* was there before the first invocation).  A state file is missing,       *)
(* empty, holds text that is no DT_FORMAT timestamp, cannot be opened for  *)
(* reading, or holds the timestamp text of a number of seconds.            *)
(***************************************************************************)
NoFile == [present |-> FALSE, whole |-> FALSE, gen |-> 0]
Copy(g) == [present |-> TRUE, whole |-> TRUE, gen |-> g]
Partial(g) == [present |-> TRUE, whole |-> FALSE, gen |-> g]

Missing == [kind |-> "missing", secs |-> 0]
Empty == [kind |-> "empty", secs |-> 0]
Garbage == [kind |-> "garbage", secs |-> 0]
Unreadable == [kind |-> "unreadable", secs |-> 0]
Text(s) == [kind |-> "text", secs |-> s]

\* A format that loses part of the time (%I for %H) and so stores a
\* timestamp before t.
StrftimeEarlier(t) == Text((t \div Sec) - 1)

\* DT_NOW.strftime(DT_FORMAT): the text of the whole seconds of t.
Strftime(t) == Text(t \div Sec)

\* datetime.strptime(text, DT_FORMAT): the timestamp of the text.
Strptime(c) == c.secs * Sec

\* datetime(1, 1, 1): more than a check interval before every clock reading.
Sentinel == 0 - (ProgramDays + 1) * Day

\* get_datetime raises on unparseable text (strptime's ValueError) and on a
\* file it cannot open (open's PermissionError).
GetDatetimeRaises(c) == c.kind \in {"garbage", "unreadable"}

GetDatetimeError(c) == IF c.kind = "garbage" THEN "ValueError in get_datetime"
                       ELSE "PermissionError in get_datetime"

GetDatetime(c) == IF c.kind = "text" THEN Strptime(c) ELSE Sentinel

\* The due test using the programs' interval for every tool.
DueProgramInterval(n, last, days) == (n - ProgramDays * Day) > last

\* The due test with >= in place of >.
DueInclusive(n, last, days) == (n - days * Day) >= last

\* (DT_NOW - timedelta(days)) > dt_lastupdated
Due(n, last, days) == (n - days * Day) > last

\* The length test catching short downloads only.
LengthShort(L, n) == L # 0 /\ n < L

\* total_size != 0 and progress_bar.n != total_size
LengthMismatch(L, n) == L # 0 /\ n # L

\* The comparison letting an equal timestamp count as newer.
NewerOrEqual(r, last) == r >= last

\* dt_lastmodified > dt_lastupdated
Newer(r, last) == r > last

VARIABLES
    tool,        \* the console script of this behaviour (name in start_program)
    quota,       \* invocations this behaviour may start
    runs,        \* invocations started
    exe,         \* [Progs -> executable file]: command[1] of each tool
    defs,        \* triddefs.trd exists
    lu,          \* [Files -> state file content]: file_lastupdated
    archive,     \* the tool's downloaded archive (filepath) is in INSTALL_DIR
    now,         \* DT_NOW of the current (or last) invocation
    dt,          \* [Files -> timestamp]: dt_lastupdated, read at import
    pc,          \* position of the launcher process
    err,         \* the exception that ended the process, or "none"
    exitStatus,  \* exit status of the launcher process (read when pc = "exited")
    childStatus, \* what subprocess.call(command) returned
    launched,    \* subprocess.call(command) was reached in this invocation
    answer,      \* the user's answer to the install question
    exe0,        \* the tool's executable when the invocation started
    lu0,         \* the state files when the invocation started
    defs0,       \* triddefs.trd existed when the invocation started
    probed,      \* files whose URL got a HEAD request in this invocation
    fetched,     \* files whose URL got a GET request in this invocation
    installed,   \* files whose payload was installed whole in this invocation
    current,     \* files a probe found not newer than dt_lastupdated
    wrote,       \* state files open(..., "w") truncated in this invocation
    delegated,   \* outcome of "trid.py --update" in this invocation
    lastInstall, \* the last invocation whose update_program wrote the state file
    prev         \* summary of the previous invocation

vars == <<tool, quota, runs, exe, defs, lu, archive, now, dt, pc, err,
          exitStatus, childStatus, launched, answer, exe0, lu0, defs0, probed,
          fetched, installed, current, wrote, delegated, lastInstall, prev>>

disk == <<exe, defs, lu, archive>>
ghost == <<probed, fetched, installed, current, wrote, delegated, lastInstall>>
proc == <<err, exitStatus, childStatus, launched>>
fixed == <<tool, quota, runs, now, dt, exe0, lu0, defs0, prev, answer>>

\* No invocation has installed the tool through update_program yet.
NoInstall == [run |-> 0, now |-> 0]

\* Summary of an invocation: its DT_NOW, the HEAD and GET requests it sent to
\* the tool's URL, whether it reached the launch.
NoPrev == [ran |-> FALSE, now |-> 0, probes |-> 0, fetches |-> 0,
           current |-> FALSE, launched |-> FALSE]


AfterUpdate == IF tool = "TrID" THEN "update_trid_defs" ELSE "run"

InitSecs == 0 .. MaxSec
InitContents == {Missing, Empty, Garbage, Unreadable}
                    \cup {Text(s) : s \in InitSecs}
RemoteTimes == {s * Sec : s \in 0 .. (MaxSec + 1)}
HeadOutcomes == {"raise", "not_ok", "no_header", "bad_header", "ok"}
GetOutcomes == {"raise", "stream_raise", "bad_zip", "entry_before_exe",
                "entry_exe", "entry_after_exe", "ok"}
\* The write succeeds, open raises (the file stays as it was), or open has
\* truncated the file and the text does not reach it (f.write or the close
\* raises, or the process is killed in between).
WriteOutcomes == {"ok", "oserror", "torn"}

\* The install directory before the first invocation of script t.
InitDisk(t) ==
    /\ exe \in {[p \in Progs |-> IF p = t THEN e ELSE NoFile] :
                    e \in {NoFile, Copy(0)}}
    /\ defs \in (IF t = "TrID" THEN BOOLEAN ELSE {FALSE})
    /\ lu \in {[f \in Files |-> IF f = t THEN c
                                ELSE IF f = DefsName THEN d ELSE Missing] :
                    c \in InitContents,
                    d \in (IF t = "TrID" THEN InitContents
                                         ELSE {Missing, Garbage})}
    /\ archive = FALSE

InitProcess ==
    /\ runs = 0
    /\ now = 0
    /\ dt = [f \in Files |-> Sentinel]
    /\ pc = "idle"
    /\ err = "none"
    /\ exitStatus = ExitNormal
    /\ childStatus = 0
    /\ launched = FALSE
    /\ answer = "none"
    /\ exe0 = exe[tool]
    /\ lu0 = lu
    /\ defs0 = defs
    /\ lastInstall = NoInstall
    /\ probed = {}
    /\ fetched = {}
    /\ installed = {}
    /\ current = {}
    /\ wrote = {}
    /\ delegated = "none"
    /\ prev = NoPrev

\* One invocation, from every install directory of InitDisk.
Init ==
    /\ tool \in Progs
    /\ quota = 1
    /\ InitDisk(tool)
    /\ InitProcess

\* Successive invocations, from the install directories of InitDisk whose
\* state files are missing or were written at time 0.
InitRuns ==
    /\ tool \in Progs
    /\ quota = MaxRuns
    /\ InitDisk(tool)
    /\ \A f \in Files : lu[f] \in {Missing, Text(0)}
    /\ InitProcess

\* The order in which the import reads the state files (lines 38, 45, 53, 61).
ImportOrder == <<"TrID", DefsName, "TrIDScan", "TrIDDefsPack">>

\* The exception of the first get_datetime call that raises on disk l.
ImportError(l) ==
    LET i == CHOOSE k \in 1 .. Len(ImportOrder) :
                 /\ GetDatetimeRaises(l[ImportOrder[k]])
                 /\ \A j \in 1 .. (k - 1) : ~GetDatetimeRaises(l[ImportOrder[j]])
    IN GetDatetimeError(l[ImportOrder[i]])

\* An uncaught exception e ends the process.
Crash(e) ==
    /\ pc' = "exited"
    /\ err' = e
    /\ exitStatus' = ExitUncaught

\* Import of the module (lines 11-61): DT_NOW and the four get_datetime calls.
StartRun(n) ==
    /\ pc \in {"idle", "exited"}
    /\ runs < quota
    /\ runs' = runs + 1
    /\ now' = n
    /\ prev' = IF runs = 0 THEN NoPrev
               ELSE [ran |-> TRUE, now |-> now,
                     probes |-> Cardinality(probed \cap {tool}),
                     fetches |-> Cardinality(fetched \cap {tool}),
                     current |-> tool \in current,
                     launched |-> launched]
    /\ exe0' = exe[tool]
    /\ lu0' = lu
    /\ defs0' = defs
    /\ answer' = "none"
    /\ launched' = FALSE
    /\ childStatus' = 0
    /\ probed' = {}
    /\ fetched' = {}
    /\ installed' = {}
    /\ current' = {}
    /\ wrote' = {}
    /\ delegated' = "none"
    /\ IF \E f \in Files : GetDatetimeRaises(lu[f])
       THEN Crash(ImportError(lu)) /\ dt' = dt
       ELSE /\ dt' = [f \in Files |-> GetDatetime(lu[f])]
            /\ pc' = "start_program"
            /\ err' = "none"
            /\ exitStatus' = ExitNormal
    /\ UNCHANGED <<tool, quota, disk, lastInstall>>

\* start_program, lines 171-173: the install question.
StartProgram ==
    /\ pc = "start_program"
    /\ IF exe[tool].present
       THEN /\ pc' = "update_program"
            /\ UNCHANGED <<answer, err, exitStatus>>
       ELSE \E a \in BOOLEAN :
                /\ answer' = IF a THEN "yes" ELSE "no"
                /\ IF a
                   THEN pc' = "update_program" /\ UNCHANGED <<err, exitStatus>>
                   ELSE /\ pc' = "exited"
                        /\ err' = "SystemExit"
                        /\ exitStatus' = ExitDeclined
    /\ UNCHANGED <<tool, quota, runs, now, dt, exe0, lu0, defs0, prev, disk,
                   ghost, childStatus, launched>>

\* update_program, line 124: the due test.
UpdateProgram ==
    /\ pc = "update_program"
    /\ pc' = IF Due(now, dt[tool], ProgramDays) THEN "head" ELSE AfterUpdate
    /\ UNCHANGED <<fixed, disk, ghost, proc>>

\* requests.head, the parse of last-modified and the comparison with
\* dt_lastupdated (lines 126-132 and 154-161) for file f, with outcome o of
\* the request and last-modified timestamp r.
HeadOutcome(f, here, newer, notnewer, o, r) ==
    /\ pc = here
    /\ probed' = probed \cup {f}
    /\ CASE o = "raise" -> Crash("RequestException") /\ UNCHANGED current
         [] o = "not_ok" -> pc' = notnewer /\ UNCHANGED <<current, err, exitStatus>>
         [] o = "no_header" -> Crash("KeyError") /\ UNCHANGED current
         [] o = "bad_header" -> Crash("ValueError") /\ UNCHANGED current
         [] o = "ok" ->
              IF Newer(r, dt[f])
              THEN pc' = newer /\ UNCHANGED <<current, err, exitStatus>>
              ELSE /\ pc' = notnewer
                   /\ current' = current \cup {f}
                   /\ UNCHANGED <<err, exitStatus>>
    /\ UNCHANGED <<fixed, disk, fetched, installed, wrote, delegated,
                   lastInstall, childStatus, launched>>

HeadRequest(f, here, newer, notnewer) ==
    \E o \in HeadOutcomes, r \in RemoteTimes :
        HeadOutcome(f, here, newer, notnewer, o, r)

HeadProgram == HeadRequest(tool, "head", "get_program", AfterUpdate)

\* get_program (lines 96-118) with declared length L, n bytes received and
\* outcome o of the request and of the archive.
GetProgram(L, n, o) ==
    /\ pc = "get_program"
    /\ fetched' = fetched \cup {tool}
    /\ archive' = (archive \/ o # "raise")
    /\ CASE o = "raise" -> Crash("RequestException") /\ UNCHANGED <<exe, installed>>
         [] o = "stream_raise" -> Crash("RequestException") /\ UNCHANGED <<exe, installed>>
         [] OTHER ->
              IF LengthMismatch(L, n)
              THEN Crash("RuntimeError") /\ UNCHANGED <<exe, installed>>
              ELSE CASE o = "bad_zip" ->
                          Crash("BadZipFile") /\ UNCHANGED <<exe, installed>>
                     [] o = "entry_before_exe" ->
                          Crash("BadZipFile") /\ UNCHANGED <<exe, installed>>
                     [] o = "entry_exe" ->
                          /\ Crash("BadZipFile")
                          /\ exe' = [exe EXCEPT ![tool] = Partial(runs)]
                          /\ UNCHANGED installed
                     [] o = "entry_after_exe" ->
                          /\ Crash("BadZipFile")
                          /\ exe' = [exe EXCEPT ![tool] = Copy(runs)]
                          /\ UNCHANGED installed
                     [] o = "ok" ->
                          /\ exe' = [exe EXCEPT ![tool] = Copy(runs)]
                          /\ installed' = installed \cup {tool}
                          /\ pc' = "write_lu"
                          /\ UNCHANGED <<err, exitStatus>>
    /\ UNCHANGED <<fixed, defs, lu, probed, current, wrote, delegated,
                   lastInstall, childStatus, launched>>

GetProgramStep == \E L \in 0 .. MaxLen, n \in 0 .. MaxLen, o \in GetOutcomes :
                      GetProgram(L, n, o)

\* open(file_lastupdated, "w") and f.write(DT_NOW.strftime(DT_FORMAT))
\* (lines 137-138, 148-149, 164-165) for file f.
WriteLastUpdated(f, here, next) ==
    /\ pc = here
    /\ \E o \in WriteOutcomes :
          CASE o = "ok" ->
                 /\ lu' = [lu EXCEPT ![f] = Strftime(now)]
                 /\ wrote' = wrote \cup {f}
                 /\ lastInstall' = IF f = tool
                                   THEN [run |-> runs, now |-> now]
                                   ELSE lastInstall
                 /\ pc' = next
                 /\ UNCHANGED <<err, exitStatus>>
            [] o = "oserror" ->
                 /\ Crash("OSError")
                 /\ UNCHANGED <<lu, wrote, lastInstall>>
            [] o = "torn" ->
                 /\ Crash("OSError")
                 /\ lu' = [lu EXCEPT ![f] = Empty]
                 /\ wrote' = wrote \cup {f}
                 /\ UNCHANGED lastInstall
    /\ UNCHANGED <<fixed, exe, defs, archive, probed, fetched, installed,
                   current, delegated, childStatus, launched>>

WriteProgram == WriteLastUpdated(tool, "write_lu", AfterUpdate)

\* update_trid_defs, lines 144 and 152: is triddefs.trd there, is a check due.
UpdateTridDefs ==
    /\ pc = "update_trid_defs"
    /\ pc' = IF ~defs THEN "defs_install"
             ELSE IF Due(now, dt[DefsName], DefsDays) THEN "defs_head"
             ELSE "run"
    /\ UNCHANGED <<fixed, disk, ghost, proc>>

HeadDefs == HeadRequest(DefsName, "defs_head", "defs_update", "run")

\* subprocess.call([sys.executable, trid.py, "--update"]) (lines 146, 162):
\* the status it returns is dropped.
TridUpdate(here) ==
    /\ pc = here
    /\ \E ok \in BOOLEAN :
          /\ ok => exe["TrID"].present /\ exe["TrID"].whole
          /\ delegated' = IF ok THEN "ok" ELSE "failed"
          /\ defs' = (defs \/ ok)
          /\ installed' = IF ok THEN installed \cup {DefsName} ELSE installed
    /\ pc' = "defs_write"
    /\ UNCHANGED <<fixed, exe, lu, archive, probed, fetched, current, wrote,
                   lastInstall, proc>>

InstallDefs == TridUpdate("defs_install")

UpdateDefs == TridUpdate("defs_update")

WriteDefs == WriteLastUpdated(DefsName, "defs_write", "run")

\* Statuses the child can return: a missing script makes the interpreter fail.
ChildStatuses == IF exe[tool].present THEN 0 .. MaxStatus ELSE 1 .. MaxStatus

\* The launch placed before the definitions' update of TrID.
RunProgramEarly ==
    /\ pc = "run"
    /\ \E s \in ChildStatuses : childStatus' = s
    /\ launched' = TRUE
    /\ IF tool = "TrID" /\ ~launched
       THEN pc' = "update_trid_defs" /\ UNCHANGED <<err, exitStatus>>
       ELSE pc' = "exited" /\ err' = "none" /\ exitStatus' = ExitNormal
    /\ UNCHANGED <<fixed, disk, ghost>>

\* start_program, lines 186-190, and the return through trid_main: the
\* value of subprocess.call is dropped and the process ends normally.
RunProgram ==
    /\ pc = "run"
    /\ \E s \in ChildStatuses : childStatus' = s
    /\ launched' = TRUE
    /\ pc' = "exited"
    /\ err' = "none"
    /\ exitStatus' = ExitNormal
    /\ UNCHANGED <<fixed, disk, ghost>>

Next ==
    \/ \E n \in now .. MaxNow : StartRun(n)
    \/ StartProgram
    \/ UpdateProgram
    \/ HeadProgram
    \/ GetProgramStep
    \/ WriteProgram
    \/ UpdateTridDefs
    \/ HeadDefs
    \/ InstallDefs
    \/ UpdateDefs
    \/ WriteDefs
    \/ RunProgram

Spec == Init /\ [][Next]_vars

SpecRuns == InitRuns /\ [][Next]_vars

TypeOK ==
    /\ tool \in Progs
    /\ pc \in {"idle", "start_program", "update_program", "head",
               "get_program", "write_lu", "update_trid_defs", "defs_head",
               "defs_install", "defs_update", "defs_write", "run", "exited"}
    /\ now \in 0 .. MaxNow
    /\ runs \in 0 .. quota
    /\ wrote \subseteq Files
    /\ probed \subseteq Files


(***************************************************************************)
(* The claims.                                                             *)
(***************************************************************************)

\* The launcher process of the current invocation has ended.
Ended == runs > 0 /\ pc = "exited"

\* The four state files could be read at import.
Readable == \A f \in Files : ~GetDatetimeRaises(lu0[f])

\* The timestamp the invocation read for file f.
Stored(f) == GetDatetime(lu0[f])

\* Requests the invocation sent to the tool's own URL.
Requests == Cardinality(probed \cap {tool}) + Cardinality(fetched \cap {tool})

\* C1: an invocation of a tool whose executable existed at the start (and
\* whose state files could be read) ends only after the tool was launched,
\* whatever the probe and the download did.
C1_LaunchesInstalledTool ==
    (Ended /\ exe0.present /\ Readable) => launched

\* C2: when the tool was launched, the launcher's exit status is the status
\* the tool returned.
C2_ExitStatusIsChildStatus ==
    (Ended /\ launched) => exitStatus = childStatus

\* C3: executable absent and the install question answered no: the process
\* has exited with a non-zero status and the tool was not launched.
C3_DeclinedInstallExits ==
    (runs > 0 /\ ~exe0.present /\ answer = "no")
        => (pc = "exited" /\ exitStatus # 0 /\ ~launched)

C3_Witness ==
    Ended /\ ~exe0.present /\ answer = "no" /\ err = "SystemExit"

\* C4: executable absent and the install confirmed: the invocation sends
\* the GET request for the archive whatever the stored timestamp and the
\* probe were; and if the download succeeded, the state file holds the text
\* of DT_NOW and the executable exists when the tool is launched.
C4_InstallFetchesUnconditionally ==
    (Ended /\ ~exe0.present /\ answer = "yes")
        => /\ tool \in fetched
           /\ (tool \in installed /\ launched)
                 => (lu[tool] = Strftime(now) /\ exe[tool].present)

\* C5: executable absent at the start and still absent when the invocation
\* ends: the tool was not launched and the exit status is non-zero.
C5_NoLaunchWithoutExecutable ==
    (Ended /\ ~exe0.present /\ ~exe[tool].present)
        => (~launched /\ exitStatus # 0)

\* C6: executable present and now minus the stored timestamp at most the
\* interval (7 days): no HEAD and no GET request for the tool, control goes
\* from the due test on to the definitions (TrID) or the launch, and the
\* tool is launched unless the definitions' own update intervenes.  The
\* same for the definitions (triddefs.trd present, 2 days): no HEAD request
\* and no delegated update.
C6_NotDueNoRequest ==
    (runs > 0 /\ Readable) =>
        /\ (exe0.present /\ now - Stored(tool) <= ProgramDays * Day) =>
              /\ tool \notin probed
              /\ tool \notin fetched
              /\ tool \notin wrote
              /\ pc \notin {"head", "get_program", "write_lu"}
              /\ (Ended /\ tool # "TrID") => (launched /\ err = "none")
        /\ (tool = "TrID" /\ defs /\ delegated = "none"
                /\ now - Stored(DefsName) <= DefsDays * Day) =>
              /\ DefsName \notin probed
              /\ DefsName \notin wrote
              /\ pc \notin {"defs_head", "defs_install", "defs_update",
                            "defs_write"}
              /\ (Ended /\ exe0.present
                    /\ now - Stored(tool) <= ProgramDays * Day)
                    => (launched /\ err = "none" /\ probed = {} /\ fetched = {})

C6_Witness ==
    /\ Ended /\ launched /\ exe0.present /\ tool = "TrID" /\ defs
    /\ lu0[tool].kind = "text" /\ lu0[DefsName].kind = "text"
    /\ now - Stored(tool) = ProgramDays * Day
    /\ now - Stored(DefsName) = DefsDays * Day
    /\ probed = {} /\ fetched = {}

\* C7: a second invocation with the DT_NOW of the first, after a first one
\* that found the installed copy current and launched it, sends no HEAD
\* request, and the two together send at most one request.
C7_SecondRunSkipsCheck ==
    (prev.ran /\ prev.now = now /\ prev.launched /\ prev.fetches = 0
        /\ (prev.probes = 0 \/ prev.current) /\ exe0.present /\ Readable)
        => /\ tool \notin probed
           /\ prev.probes + prev.fetches + Requests <= 1

\* C8: every state file written in the invocation belongs to a payload that
\* was installed in the invocation or that a probe found current.
C8_WritesOnlyAfterSuccess ==
    \A f \in wrote : f \in installed \/ f \in current

\* C9: an update of an installed tool that failed inside get_program left
\* the executable as it was.
C9_FailedUpdateKeepsExecutable ==
    (Ended /\ exe0.present /\ tool \in fetched /\ tool \notin installed)
        => exe[tool] = exe0

\* C10: get_program with a declared length L > 0 and n # L bytes received
\* ends in an error, extracts nothing and leaves the executable as it was
\* (absent if it was absent).
C10_LengthMismatchFails ==
    [][\A L \in 1 .. MaxLen, n \in 0 .. MaxLen, o \in GetOutcomes :
          (n # L /\ GetProgram(L, n, o))
              => /\ pc' = "exited"
                 /\ err' # "none"
                 /\ exitStatus' # 0
                 /\ exe' = exe
                 /\ installed' = installed]_vars

C10_Witness ==
    /\ Ended /\ err = "RuntimeError" /\ tool \in fetched
    /\ ~exe0.present /\ ~exe[tool].present


\* C11: get_datetime does not fail: a state file that is missing, empty,
\* unreadable or unparseable is read as the sentinel, which lies before
\* every remote timestamp.
C11_ReadNeverFails ==
    runs > 0 =>
        \A f \in Files :
            lu0[f].kind # "text" =>
                /\ err \notin {GetDatetimeError(Garbage),
                               GetDatetimeError(Unreadable)}
                /\ pc # "exited" => dt[f] = Sentinel
                /\ \A r \in RemoteTimes : Sentinel < r


\* C12: a state file written in the invocation reads back as the timestamp
\* written (DT_NOW, to the second of DT_FORMAT); and when the write broke
\* off, it reads back as the value it held before the invocation, never as
\* the sentinel in place of a stored value and never as unparseable text.
C12_WriteRoundTripAndAtomic ==
    \A f \in wrote :
        /\ ~GetDatetimeRaises(lu[f])
        /\ \/ GetDatetime(lu[f]) = (now \div Sec) * Sec
           \/ GetDatetime(lu[f]) = GetDatetime(lu0[f])


\* C13: for a tool whose executable exists, update_program sends the GET
\* request exactly when the check is due, the probe succeeds and the remote
\* timestamp is strictly newer than the stored one; a due check whose probe
\* returns an older or equal timestamp downloads nothing and goes on to the
\* launch (for TrID: through the definitions' check).
C13_DownloadIffDueOkNewer ==
    /\ [](  (runs > 0 /\ exe0.present /\ Readable) =>
              /\ (pc \in {"head", "get_program"} \/ tool \in probed)
                    => now - Stored(tool) > ProgramDays * Day
              /\ (pc = "get_program" \/ tool \in fetched)
                    => (tool \in probed /\ tool \notin current)
              /\ tool \in current =>
                    /\ tool \notin fetched
                    /\ tool \notin wrote
                    /\ pc \notin {"head", "get_program", "write_lu"}
                    /\ (Ended /\ tool # "TrID") => (launched /\ err = "none"))
    /\ [][(exe0.present /\ UpdateProgram)
              => (pc' = "head" <=> now - Stored(tool) > ProgramDays * Day)]_vars
    /\ [][\A o \in HeadOutcomes, r \in RemoteTimes :
              (exe0.present
                  /\ HeadOutcome(tool, "head", "get_program", AfterUpdate, o, r))
                  => (pc' = "get_program" <=> (o = "ok" /\ r > Stored(tool)))]_vars
    /\ [][(runs' = runs /\ tool \in fetched' /\ tool \notin fetched)
              => pc = "get_program"]_vars

C13_Witness ==
    /\ Ended /\ launched /\ exe0.present /\ lu0[tool].kind = "text"
    /\ now - Stored(tool) > ProgramDays * Day
    /\ tool \in current /\ tool \notin fetched


\* C14: TrID installed and triddefs.trd absent: the launcher sends no
\* request to the definitions' URL itself, and it writes the definitions'
\* state file only when the delegated "trid.py --update" succeeded.
C14_DelegatedInstallRecordedOnSuccess ==
    (runs > 0 /\ tool = "TrID" /\ exe0.present /\ ~defs0) =>
        /\ DefsName \notin probed
        /\ DefsName \notin fetched
        /\ pc \notin {"defs_head", "defs_update"}
        /\ DefsName \in wrote => delegated = "ok"


\* C15: the archive was downloaded and extracted but the state file did not
\* get the new timestamp: the tool is launched all the same, and an
\* invocation started afterwards finds the check due again.
C15_StateWriteFailureStillLaunches ==
    (Ended /\ tool \in installed /\ lu[tool] # Strftime(now)) =>
        /\ launched
        /\ \A n \in now .. MaxNow :
              /\ ~GetDatetimeRaises(lu[tool])
              /\ Due(n, GetDatetime(lu[tool]), ProgramDays)

\* C16: once get_program has run (whatever its outcome), the downloaded
\* archive is not in the install directory.
C16_ArchiveRemoved ==
    (runs > 0 /\ tool \in fetched) => ~archive


\* Positions inside update_program and inside update_trid_defs.
ProgramPcs == {"update_program", "head", "get_program", "write_lu"}
DefsPcs == {"update_trid_defs", "defs_head", "defs_install", "defs_update",
            "defs_write"}

\* C17: the tool is launched after every probe, download and state-file
\* write of the invocation (nothing of them follows the launch), and for
\* TrID the program's check is over before the definitions' check starts.
C17_LaunchAfterAllChecks ==
    /\ [](launched => pc = "exited")
    /\ [][(launched /\ launched')
              => /\ probed' = probed
                 /\ fetched' = fetched
                 /\ wrote' = wrote
                 /\ delegated' = delegated
                 /\ <<exe, defs, lu, archive>>' = <<exe, defs, lu, archive>>]_vars
    /\ [](pc \in ProgramPcs
              => (DefsName \notin probed /\ DefsName \notin wrote
                    /\ delegated = "none"))
    /\ [][(pc \in DefsPcs /\ runs' = runs)
              => /\ pc' \notin ProgramPcs
                 /\ (tool \in probed') = (tool \in probed)
                 /\ (tool \in fetched') = (tool \in fetched)
                 /\ (tool \in wrote') = (tool \in wrote)
                 /\ lu'[tool] = lu[tool]
                 /\ exe' = exe]_vars

C17_Witness ==
    /\ Ended /\ launched /\ tool = "TrID"
    /\ tool \in probed /\ tool \in fetched /\ tool \in wrote
    /\ DefsName \in probed /\ DefsName \in wrote /\ delegated = "ok"


\* C18: the due test of update_program (7 days) and of update_trid_defs
\* (2 days) is true exactly when now - lastSynced > interval, and it is
\* true whenever lastSynced is the sentinel read for a missing state file.
C18_DueTest ==
    /\ [][UpdateProgram
              => (pc' = "head" <=> now - dt[tool] > ProgramDays * Day)]_vars
    /\ [][(UpdateTridDefs /\ defs)
              => (pc' = "defs_head"
                    <=> now - dt[DefsName] > DefsDays * Day)]_vars
    /\ [][(UpdateProgram /\ lu0[tool] = Missing)
              => (dt[tool] = Sentinel /\ pc' = "head")]_vars
    /\ [][(UpdateTridDefs /\ defs /\ lu0[DefsName] = Missing)
              => (dt[DefsName] = Sentinel /\ pc' = "defs_head")]_vars

C18_Witness ==
    /\ pc = "defs_head" /\ lu0[DefsName].kind = "text"
    /\ Stored(DefsName) <= now
    /\ now - Stored(DefsName) = DefsDays * Day + 1
    /\ lu0[tool] = Missing /\ tool \in probed


\* An invocation later than the last one whose update_program installed the
\* tool and wrote its state file.
AfterInstall == lastInstall.run > 0 /\ runs > lastInstall.run

\* C19 as stated: an invocation started within 7 days of the DT_NOW of the
\* installing invocation sends no HEAD and no GET request for the tool.
C19_NoRequestWithinInterval ==
    (AfterInstall /\ now - lastInstall.now <= ProgramDays * Day)
        => (tool \notin probed /\ tool \notin fetched)

\* C19 amended: an invocation started within 7 days of the stored
\* timestamp, which is the DT_NOW of the installing invocation cut to whole
\* seconds, sends no HEAD and no GET request for the tool.
C19_NoRequestWithinStoredInterval ==
    (AfterInstall
        /\ now - (lastInstall.now \div Sec) * Sec <= ProgramDays * Day)
        => (tool \notin probed /\ tool \notin fetched /\ tool \notin wrote)

C19_Witness ==
    /\ AfterInstall /\ Ended /\ launched
    /\ lastInstall.now % Sec # 0
    /\ now - (lastInstall.now \div Sec) * Sec = ProgramDays * Day
    /\ tool \notin probed

\* C20 as stated: from one step to the next the timestamp read from a state
\* file never decreases, and a state file written by update_program reads
\* as a timestamp after the one read from it when the invocation started.
C20_StoredNeverDecreases ==
    /\ [][\A f \in Files : GetDatetime(lu'[f]) >= GetDatetime(lu[f])]_vars
    /\ [](tool \in wrote => GetDatetime(lu[tool]) > dt[tool])

=============================================================================
